---- MODULE Spec2Model ----
(***************************************************************************)
(* Model of the candy-machine command line tool, js/packages/cli/src/cli.ts *)
(* (the `upload` and `verify` commands): the cache file, the in-memory      *)
(* cache document of a run, the config account on the ledger, and the       *)
(* position of the running command between two awaits.                      *)
(*                                                                          *)
(* Strings are sequences of naturals (characters).  An undefined / absent   *)
(* string is the empty sequence.                                            *)
(***************************************************************************)
EXTENDS Naturals, Sequences, FiniteSets, TLC

\* ------------------------------------------------------------------ bounds
\* Item indices (file stems) are drawn from 0 .. MaxItems-1.
MaxItems == 3

\* The longest file list the ItemSet is computed from when file lists with
\* repeated entries are tried.
MaxListing == 3

\* The largest cache the Batch Registrar is started on when it is tried on
\* caches of every size and with more batch sizes.
MaxCached == 7

Idx == 0 .. (MaxItems - 1)

\* The batch sizes of the Batch Registrar, scaled down from the 10 items per
\* micro-batch (lines 459, 461) and 1000 positions per macro-group (line 454)
\* of cli.ts.  A behaviour runs with one of these pairs throughout.
BatchSizes == {[micro |-> 1, macro |-> 2], [micro |-> 2, macro |-> 2]}

\* ---------------------------------------------------------------- the state
VARIABLES
  files,    \* the listing of the upload directory (the files argument)
  disk,     \* the cache file: [exists, text]
  ledger,   \* the config account on the ledger
  pc,       \* where the running command is suspended ("idle": none running)
  mem,      \* cacheContent / cachedContent of the running command
  images,   \* the ItemSet of the running upload
  i,        \* the loop counter of the per-item loop
  tasks,    \* the macro-group tasks: [off, st] per macro-group
  ended,    \* the finally block after Promise.all has run
  written,  \* history: the record last carried for a key by a confirmed batch write
  hist,     \* history of runs (kept only when hist.track)
  outcome,  \* how the last command ended, "running" while one runs
  sizes,    \* the batch sizes of this behaviour, one of BatchSizes
  url,      \* the --url option of the commands of this behaviour
  submit    \* the Transaction Submitter call in flight: [attempt, result]

vars == <<files, disk, ledger, pc, mem, images, i, tasks, ended, written, hist,
          outcome, sizes, url, submit>>

MicroSize == sizes.micro
MacroSize == sizes.macro

\* Keypairs createConfig can generate (config account ids); 0 is "absent".
CfgIds == {1, 2}
NoId == 0

\* Transaction ids the storage service can return for the metadata, and the
\* one it returns for the image.
TxIds == {<<7>>}
ImageTxId == <<9>>

\* Filenames the storage service can list in its response.
ImageFile == "image.png"
MetadataFile == "metadata.json"
ManifestFile == "manifest.json"

NoStr == <<>>

\* ------------------------------------------------------------- pure helpers
Min(a, b) == IF a < b THEN a ELSE b

RECURSIVE SortedSeq(_)
SortedSeq(S) ==
  IF S = {} THEN <<>>
  ELSE LET m == CHOOSE x \in S : \A y \in S : x <= y
       IN <<m>> \o SortedSeq(S \ {m})

Range(s) == {s[j] : j \in DOMAIN s}

\* Mutant: the slice runs to (index+1)*size inclusive.
chunksEndInclusive(array, size) ==
  LET n == (Len(array) + size - 1) \div size
  IN [index \in 1 .. n |->
        SubSeq(array, (index - 1) * size + 1, Min(index * size + 1, Len(array)))]

\* chunks(array, size): ceil(len/size) slices [index*size, (index+1)*size).
chunks(array, size) ==
  LET n == (Len(array) + size - 1) \div size
  IN [index \in 1 .. n |->
        SubSeq(array, (index - 1) * size + 1, Min(index * size, Len(array)))]

\* Array.from(Array(n).keys()): the positions 0 .. n-1.
Positions(n) == [j \in 1 .. n |-> j - 1]

\* s contains t as a contiguous substring (String.prototype.match with a
\* pattern free of regular-expression metacharacters).
Contains(s, t) ==
  \E a \in 0 .. Len(s) :
    a + Len(t) <= Len(s) /\ SubSeq(s, a + 1, a + Len(t)) = t

\* str.match(pat): an undefined pattern becomes the empty regular expression,
\* which matches every string.
Match(str, pat) == IF pat = NoStr THEN TRUE ELSE Contains(str, pat)

\* manifest.name of the item with file stem k.
NameOf(k) == <<100 + k>>

\* `https://arweave.net/${transactionId}`; 0 stands for the host prefix.
LinkOf(txid) == <<0>> \o txid

\* ------------------------------------------------------------ cache document
\* In memory: program.uuid, program.config, items[key] = {link, name, onChain}.
EmptyDoc == [uuid |-> NoId, config |-> NoId, items |-> <<>>]

\* Object.keys(items): integer-like keys come out in ascending order.
Keys(items) == SortedSeq(DOMAIN items)

\* JSON.stringify: a property whose value is undefined is left out.
StringifyItem(rec) ==
  IF rec.link = NoStr
  THEN [f \in {"name", "onChain"} |-> IF f = "name" THEN rec.name ELSE rec.onChain]
  ELSE [f \in {"link", "name", "onChain"} |->
          IF f = "link" THEN rec.link
          ELSE IF f = "name" THEN rec.name ELSE rec.onChain]

StringifyProgram(doc) ==
  LET fs == (IF doc.uuid = NoId THEN {} ELSE {"uuid"})
              \cup (IF doc.config = NoId THEN {} ELSE {"config"})
  IN [f \in fs |-> IF f = "uuid" THEN doc.uuid ELSE doc.config]

Stringify(doc) ==
  LET ks == Keys(doc.items)
  IN [program |-> StringifyProgram(doc),
      items |-> [j \in 1 .. Len(ks) |->
                   [key |-> ks[j], val |-> StringifyItem(doc.items[ks[j]])]]]

\* JSON.parse: a missing property reads as undefined.
ParseItem(val) ==
  [link |-> IF "link" \in DOMAIN val THEN val.link ELSE NoStr,
   name |-> val.name,
   onChain |-> val.onChain]

Parse(text) ==
  [uuid |-> IF "uuid" \in DOMAIN text.program THEN text.program.uuid ELSE NoId,
   config |-> IF "config" \in DOMAIN text.program THEN text.program.config ELSE NoId,
   items |-> [k \in {text.items[j].key : j \in DOMAIN text.items} |->
                ParseItem((CHOOSE e \in Range(text.items) : e.key = k).val)]]

NoFile == [exists |-> FALSE, text |-> Stringify(EmptyDoc)]

\* fs.writeFileSync(cachePath, JSON.stringify(cacheContent))
Save(doc) == [exists |-> TRUE, text |-> Stringify(doc)]

\* The upload command's load: an absent file gives {program: {}, items: {}}.
Load(file) == IF file.exists THEN Parse(file.text) ELSE EmptyDoc

\* ------------------------------------------------------------------ ItemSet
\* readdirSync(directory) of a directory that holds, for each of its stems k,
\* the files k.json and k.png: the names in order.
File(k, ext, indir) == [stem |-> k, ext |-> ext, indir |-> indir]

RECURSIVE ListingOf(_)
ListingOf(ks) ==
  IF ks = <<>> THEN <<>>
  ELSE <<File(Head(ks), "json", TRUE), File(Head(ks), "png", TRUE)>>
         \o ListingOf(Tail(ks))

Listing(dir) == ListingOf(SortedSeq(dir))

\* The stems of the files of a listing.
Stems(listing) == {listing[j].stem : j \in DOMAIN listing}

\* f.replace('.png', '').split('/').pop(): the key under which a file is seen.
SeenKey(f) == IF f.ext = "png" THEN <<f.stem, "">> ELSE <<f.stem, f.ext>>

\* Mutant: every file is pushed, seen or not.
RECURSIVE DedupFilesKeepsAll(_, _, _)
DedupFilesKeepsAll(fs, seen, newFiles) ==
  IF fs = <<>> THEN [seen |-> seen, newFiles |-> newFiles]
  ELSE DedupFilesKeepsAll(Tail(fs), seen \cup {SeenKey(Head(fs))},
                          Append(newFiles, Head(fs)))

RECURSIVE DedupFiles(_, _, _)
DedupFiles(fs, seen, newFiles) ==
  IF fs = <<>> THEN [seen |-> seen, newFiles |-> newFiles]
  ELSE IF SeenKey(Head(fs)) \in seen
       THEN DedupFiles(Tail(fs), seen, newFiles)
       ELSE DedupFiles(Tail(fs), seen \cup {SeenKey(Head(fs))},
                       Append(newFiles, Head(fs)))

RECURSIVE AddCached(_, _, _)
AddCached(existing, seen, newFiles) ==
  IF existing = <<>> THEN newFiles
  ELSE IF <<Head(existing), "">> \in seen
       THEN AddCached(Tail(existing), seen, newFiles)
       ELSE AddCached(Tail(existing), seen \cup {<<Head(existing), "">>},
                      Append(newFiles, File(Head(existing), "png", FALSE)))

\* images: newFiles filtered by extension .png.
Images(listing, existingInCache) ==
  LET d == DedupFiles(listing, {}, <<>>)
  IN SelectSeq(AddCached(existingInCache, d.seen, d.newFiles),
               LAMBDA f : f.ext = "png")

\* index = path.basename(image).replace('.png', '')
IndexOf(image) == image.stem

\* ------------------------------------------------------------ ledger account
\* The config account: created by createConfig with room for `cap` lines;
\* line j holds the (uri, name) record of slot j.
EmptyLine == [uri |-> NoStr, name |-> NoStr]
NoAccount == [id |-> NoId, cap |-> 0, lines |-> <<>>]

\* createConfig: a new account sized for maxNumberOfLines lines, all empty.
NewAccount(id, maxNumberOfLines) ==
  [id |-> id, cap |-> maxNumberOfLines,
   lines |-> [j \in 0 .. (maxNumberOfLines - 1) |-> EmptyLine]]

\* addConfigLines(ind, records) as sent by the Batch Registrar for the
\* micro-batch `indexes` (positions in keys).
BatchRequest(config, items, keys, indexes) ==
  [config |-> config,
   start |-> keys[indexes[1] + 1],
   records |-> [j \in 1 .. Len(indexes) |->
                  [uri |-> items[keys[indexes[j] + 1]].link,
                   name |-> items[keys[indexes[j] + 1]].name]]]

\* The ledger can confirm a batch write only into an existing account and
\* within the capacity it was created with.
Accepts(acct, req) ==
  /\ req.config # NoId
  /\ acct.id = req.config
  /\ req.start + Len(req.records) <= acct.cap

\* Records are stored contiguously from the insertion point.
WriteLines(acct, req) ==
  [acct EXCEPT !.lines =
     [j \in DOMAIN acct.lines |->
        IF j >= req.start /\ j < req.start + Len(req.records)
        THEN req.records[j - req.start + 1]
        ELSE acct.lines[j]]]

\* The verifier's slice for position i, decoded: bytes past the end of the
\* account data decode to empty strings.
DecodeLine(acct, pos) ==
  IF pos \in DOMAIN acct.lines THEN acct.lines[pos] ELSE EmptyLine

\* ------------------------------------------------------------ Batch Registrar
\* The micro-batch of a macro-group slice at `offset`.
MicroBatch(slice, offset) ==
  SubSeq(slice, offset + 1, Min(offset + MicroSize, Len(slice)))

\* Mutant: the batch is written only when none of its items is on chain.
NeedsWriteWhenNoneOnChain(items, keys, indexes) ==
  \A j \in DOMAIN indexes : ~items[keys[indexes[j] + 1]].onChain

\* onChain.length != indexes.length
NeedsWrite(items, keys, indexes) ==
  \E j \in DOMAIN indexes : ~items[keys[indexes[j] + 1]].onChain

\* A macro-group task runs from `offset` to its next await: it passes the
\* micro-batches that are wholly on chain and stops at the first one it has
\* to write (the addConfigLines call is then in flight), or at the end.
RECURSIVE RunTask(_, _, _, _)
RunTask(items, keys, slice, offset) ==
  IF offset >= Len(slice) THEN [off |-> offset, st |-> "done"]
  ELSE IF NeedsWrite(items, keys, MicroBatch(slice, offset))
       THEN [off |-> offset, st |-> "pending"]
       ELSE RunTask(items, keys, slice, offset + MicroSize)

\* Mutant: every key of the cache is marked, not only the micro-batch.
MarkEveryKey(items, keys, indexes) ==
  [k \in DOMAIN items |-> [items[k] EXCEPT !.onChain = TRUE]]

\* indexes.forEach(i => items[keys[i]] = {...items[keys[i]], onChain: true})
MarkOnChain(items, keys, indexes) ==
  LET ks == {keys[indexes[j] + 1] : j \in DOMAIN indexes}
  IN [k \in DOMAIN items |->
        IF k \in ks THEN [items[k] EXCEPT !.onChain = TRUE] ELSE items[k]]

\* ------------------------------------------------------------------ verifier
\* Mutant: the flag is set to the outcome of the comparison.
VerifyItemsSetsFlag(items, acct) ==
  LET keys == Keys(items)
  IN [k \in DOMAIN items |->
        LET pos == (CHOOSE j \in DOMAIN keys : keys[j] = k) - 1
            line == DecodeLine(acct, pos)
        IN [items[k] EXCEPT !.onChain =
              Match(line.name, items[k].name) /\ Match(line.uri, items[k].link)]]

\* One pass of the comparison loop over Object.keys(items).
VerifyItems(items, acct) ==
  LET keys == Keys(items)
  IN [k \in DOMAIN items |->
        LET pos == (CHOOSE j \in DOMAIN keys : keys[j] = k) - 1
            line == DecodeLine(acct, pos)
        IN IF ~Match(line.name, items[k].name) \/ ~Match(line.uri, items[k].link)
           THEN [items[k] EXCEPT !.onChain = FALSE]
           ELSE items[k]]

\* ---------------------------------------------------------- storage response
\* The record of the response's messages listed under a filename, if any.
Listed(messages, filename) ==
  {j \in DOMAIN messages : messages[j].filename = filename}

Find(messages, filename) ==
  messages[CHOOSE j \in Listed(messages, filename) :
             \A a \in Listed(messages, filename) : j <= a]

\* messages.find(m => m.filename === 'manifest.json')?.transactionId, turned
\* into the link; undefined when no such record is listed.
ExtractLink(resp) ==
  IF Listed(resp, ManifestFile) # {}
  THEN LinkOf(Find(resp, ManifestFile).transactionId)
  ELSE NoStr

\* Mutant: the record keeps the onChain flag it had ({...old, link, name}).
RecordUploadKeepsFlag(items, index, link) ==
  [k \in DOMAIN items \cup {index} |->
     IF k = index
     THEN [link |-> link, name |-> NameOf(index),
           onChain |-> IF index \in DOMAIN items THEN items[index].onChain ELSE FALSE]
     ELSE items[k]]

\* cacheContent.items[index] = {link, name: manifest.name, onChain: false}
RecordUpload(items, index, link) ==
  [k \in DOMAIN items \cup {index} |->
     IF k = index THEN [link |-> link, name |-> NameOf(index), onChain |-> FALSE]
     ELSE items[k]]

\* What the storage service can answer: no messages at all, or a record for
\* the image followed by one for the metadata, the latter listed under the
\* filename it was uploaded with or under 'manifest.json'.
Responses ==
  {<<>>} \cup
  {<<[filename |-> ImageFile, transactionId |-> ImageTxId],
     [filename |-> f, transactionId |-> t]>> :
     f \in {MetadataFile, ManifestFile}, t \in TxIds}

\* ------------------------------------------------------ Transaction Submitter
\* The retry ceiling of a submit call: the number of attempts it makes at most.
MaxAttempts == 3

\* No submit call is in flight.
NoSubmit == [attempt |-> 0, result |-> "none"]

\* A submit call has sent its first attempt.
FirstAttempt == [attempt |-> 1, result |-> "sent"]

\* What the network can answer to an attempt: confirmed, rejected with a
\* blockhash-expired class error, or rejected for another reason.
Answers == {"ok", "retryable", "fatal"}

\* Mutant: the ceiling is tested after the resend, one attempt too late.
CanResendOnceMore(s) == s.result = "retryable" /\ s.attempt <= MaxAttempts

\* A retryable rejection is answered by a resend while attempts are left.
CanResend(s) == s.result = "retryable" /\ s.attempt < MaxAttempts

\* The call raises SubmissionError: a rejection that is not resent.
MustRaise(s) == s.result \in {"retryable", "fatal"} /\ ~CanResend(s)

\* ------------------------------------------------------------- initial state
NoRecord == [uri |-> NoStr, name |-> NoStr]

NoHist(track) ==
  [track |-> track, prev |-> "other", prevFiles |-> <<>>, prevDoc |-> EmptyDoc,
   mode |-> "other", saved |-> FALSE, paid |-> FALSE, ok |-> TRUE,
   err |-> "none"]

\* The cluster urls of cli.ts, and one that is none of them.
MAINNET_CLUSTER_URL == "https://api.mainnet-beta.solana.com/"
DEVNET_CLUSTER_URL == "https://api.devnet.solana.com/"
TESTNET_CLUSTER_URL == "https://api.testnet.solana.com/"
DEFAULT_CLUSTER_URL == DEVNET_CLUSTER_URL
OtherUrl == "http://localhost:8899/"

Urls == {MAINNET_CLUSTER_URL, DEVNET_CLUSTER_URL, TESTNET_CLUSTER_URL, OtherUrl}

\* The state before the first command, the url option being one of `urls`.
InitRun(track, urls) ==
  /\ files \in {Listing(S) : S \in SUBSET Idx}
  /\ sizes \in BatchSizes
  /\ url \in urls
  /\ disk = NoFile
  /\ ledger = NoAccount
  /\ pc = "idle"
  /\ outcome = "none"
  /\ mem = EmptyDoc
  /\ images = <<>>
  /\ i = 0
  /\ tasks = <<>>
  /\ ended = FALSE
  /\ written = [k \in Idx |-> NoRecord]
  /\ hist = NoHist(track)
  /\ submit = NoSubmit

\* Without -u the option has its default.
InitWith(track) == InitRun(track, {DEFAULT_CLUSTER_URL})

Init == InitWith(FALSE)

\* History bookkeeping of a step of the running command: whether the step
\* saved the cache, sent a fee payment, or saw a network call fail (a storage
\* response that lists no file at all counts as a failed upload).
Step(saved, paid, failed) ==
  hist' = IF hist.track
          THEN [hist EXCEPT !.saved = saved, !.paid = hist.paid \/ paid,
                            !.ok = hist.ok /\ ~failed]
          ELSE hist

\* History bookkeeping of the end of a command.
EndOfRun(how) ==
  hist' = IF hist.track
          THEN [hist EXCEPT !.prev = how, !.prevFiles = files,
                            !.prevDoc = Load(disk), !.mode = "other",
                            !.saved = FALSE, !.paid = FALSE, !.ok = TRUE,
                            !.err = "none"]
          ELSE hist

\* The process is gone: nothing of the run is left but the file.
Gone(how) ==
  /\ pc' = "idle"
  /\ outcome' = how
  /\ mem' = EmptyDoc
  /\ images' = <<>>
  /\ i' = 0
  /\ tasks' = <<>>
  /\ ended' = FALSE
  /\ submit' = NoSubmit

\* ------------------------------------------------------------- environment
\* A new item is put into the upload directory between two runs.
AddFile ==
  /\ pc = "idle"
  /\ \E k \in Idx \ Stems(files) : files' = Listing(Stems(files) \cup {k})
  /\ UNCHANGED <<submit, sizes, url, disk, ledger, pc, outcome, mem, images, i, tasks, ended,
                 written, hist>>

\* The process is killed while suspended at an await.
Kill ==
  /\ pc # "idle"
  /\ Gone("killed")
  /\ EndOfRun(IF hist.saved /\ pc # "verify" THEN "killed" ELSE "other")
  /\ UNCHANGED <<sizes, url, files, disk, ledger, written>>

\* ------------------------------------------------------------ upload command
\* Lines 260-336: load the cache, build the ItemSet, open the connection.
StartUpload ==
  /\ pc = "idle"
  /\ mem' = Load(disk)
  /\ images' = Images(files,
                      IF disk.exists THEN Keys(Load(disk).items) ELSE <<>>)
  /\ i' = 0
  /\ pc' = "connect"
  /\ outcome' = "running"
  /\ hist' = IF hist.track
             THEN [hist EXCEPT !.mode = IF /\ hist.prev # "other"
                                           /\ hist.prevFiles = files
                                           /\ hist.prevDoc = Load(disk)
                                        THEN hist.prev ELSE "other",
                               !.saved = FALSE, !.paid = FALSE, !.ok = TRUE]
             ELSE hist
  /\ UNCHANGED <<submit, sizes, url, files, disk, ledger, tasks, ended, written>>

\* fetchIdl / getRecentBlockhash answered.
ConnectOk ==
  /\ pc = "connect"
  /\ pc' = "item"
  /\ Step(FALSE, FALSE, FALSE)
  /\ UNCHANGED <<submit, sizes, url, files, disk, ledger, outcome, mem, images, i, tasks,
                 ended, written>>

\* fetchIdl / getRecentBlockhash rejected: the action rejects, nothing written.
ConnectFail ==
  /\ pc = "connect"
  /\ Gone("rejected")
  /\ EndOfRun("other")
  /\ UNCHANGED <<sizes, url, files, disk, ledger, written>>

\* let link = cacheContent?.items?.[index]?.link
CachedLink(doc, index) ==
  IF index \in DOMAIN doc.items THEN doc.items[index].link ELSE NoStr

\* Mutant: the skip test looks at the link only: if (!link).
EntersBlockLinkOnly(doc, index) == CachedLink(doc, index) = NoStr

\* if (!link || !cacheContent.program.uuid)
EntersBlock(doc, index) == CachedLink(doc, index) = NoStr \/ doc.uuid = NoId

\* Mutant: the first item registers whether or not a uuid is cached.
MustRegisterFirstItem(doc, n) == n = 0

\* if (i === 0 && !cacheContent.program.uuid)
MustRegister(doc, n) == n = 0 /\ doc.uuid = NoId

CurIndex == IndexOf(images[i + 1])

\* The block is not entered: next item.
ItemSkip ==
  /\ pc = "item"
  /\ i < Len(images)
  /\ ~EntersBlock(mem, CurIndex)
  /\ i' = i + 1
  /\ Step(FALSE, FALSE, FALSE)
  /\ UNCHANGED <<submit, sizes, url, files, disk, ledger, pc, outcome, mem, images, tasks,
                 ended, written>>

\* Inside the block, no registration due and the item has a link: nothing
\* is done for the item.
ItemPass ==
  /\ pc = "item"
  /\ i < Len(images)
  /\ EntersBlock(mem, CurIndex)
  /\ ~MustRegister(mem, i)
  /\ CachedLink(mem, CurIndex) # NoStr
  /\ i' = i + 1
  /\ Step(FALSE, FALSE, FALSE)
  /\ UNCHANGED <<submit, sizes, url, files, disk, ledger, pc, outcome, mem, images, tasks,
                 ended, written>>

\* Inside the block at the first item with no uuid: createConfig is called.
ItemRegister ==
  /\ pc = "item"
  /\ i < Len(images)
  /\ EntersBlock(mem, CurIndex)
  /\ MustRegister(mem, i)
  /\ pc' = "reg"
  /\ Step(FALSE, FALSE, FALSE)
  /\ UNCHANGED <<submit, sizes, url, files, disk, ledger, outcome, mem, images, i, tasks,
                 ended, written>>

\* Inside the block, no registration due, if (!link): the fee payment is sent.
ItemPay ==
  /\ pc = "item"
  /\ i < Len(images)
  /\ EntersBlock(mem, CurIndex)
  /\ ~MustRegister(mem, i)
  /\ CachedLink(mem, CurIndex) = NoStr
  /\ pc' = "fee"
  /\ submit' = FirstAttempt
  /\ Step(FALSE, TRUE, FALSE)
  /\ UNCHANGED <<sizes, url, files, disk, ledger, outcome, mem, images, i, tasks,
                 ended, written>>

\* After the registration try/catch: pay the fee when the item has no link,
\* otherwise go on with the next item.
AfterRegister(doc) ==
  IF CachedLink(doc, CurIndex) = NoStr
  THEN /\ pc' = "fee"
       /\ i' = i
       /\ submit' = FirstAttempt
  ELSE /\ pc' = "item"
       /\ i' = i + 1
       /\ submit' = NoSubmit

\* anchor.web3.Keypair.generate(): a key that names no existing account.
NewKeypair(acct) == CHOOSE id \in CfgIds : id # acct.id

\* cacheContent.program.uuid / .config = res.uuid / res.config
SetProgram(doc, id) == [doc EXCEPT !.uuid = id, !.config = id]

\* The writeFileSync that follows the registration (lines 381-384).
FlushAfterRegister(file, doc) == Save(doc)

\* The writeFileSync that follows the upload of an item (lines 440-443).
FlushAfterUpload(file, doc) == Save(doc)

\* Mutant: no write after the marking; the file is left to the finally block.
FlushSkipped(file, doc) == file

\* The writeFileSync that follows the marking of a micro-batch (lines 495-498).
FlushAfterMark(file, doc) == Save(doc)

\* The writeFileSync of the finally block (lines 507-510).
FlushFinally(file, doc) == Save(doc)

\* createConfig resolved (lines 377-384).
RegOk ==
  /\ pc = "reg"
  /\ mem' = SetProgram(mem, NewKeypair(ledger))
  /\ ledger' = NewAccount(NewKeypair(ledger), Len(images))
  /\ disk' = FlushAfterRegister(disk, mem')
  /\ AfterRegister(mem)
  /\ Step(TRUE, CachedLink(mem, CurIndex) = NoStr, FALSE)
  /\ UNCHANGED <<sizes, url, files, outcome, images, tasks, ended, written>>

\* createConfig rejected: logged (lines 385-388), the run goes on.
RegFail ==
  /\ pc = "reg"
  /\ AfterRegister(mem)
  /\ Step(FALSE, CachedLink(mem, CurIndex) = NoStr, TRUE)
  /\ UNCHANGED <<sizes, url, files, disk, ledger, outcome, mem, images, tasks, ended,
                 written>>

\* sendTransactionWithRetryWithKeypair resolved: the upload request is sent.
FeeOk ==
  /\ pc = "fee"
  /\ pc' = "store"
  /\ Step(FALSE, FALSE, FALSE)
  /\ UNCHANGED <<submit, sizes, url, files, disk, ledger, outcome, mem, images, i, tasks,
                 ended, written>>

\* sendTransactionWithRetryWithKeypair rejected: the call is outside every
\* try block (lines 400-406), so the action itself rejects.
FeeFail ==
  /\ pc = "fee"
  /\ Gone("rejected")
  /\ EndOfRun("other")
  /\ UNCHANGED <<sizes, url, files, disk, ledger, written>>

\* The storage service answered (lines 417-443).
StoreOk ==
  /\ pc = "store"
  /\ \E resp \in Responses :
       /\ mem' = [mem EXCEPT !.items =
                    RecordUpload(mem.items, CurIndex, ExtractLink(resp))]
       /\ Step(TRUE, FALSE, resp = <<>>)
  /\ disk' = FlushAfterUpload(disk, mem')
  /\ i' = i + 1
  /\ pc' = "item"
  /\ submit' = NoSubmit
  /\ UNCHANGED <<sizes, url, files, ledger, outcome, images, tasks, ended, written>>

\* fetch or .json() threw: caught and logged (lines 444-446).
StoreFail ==
  /\ pc = "store"
  /\ i' = i + 1
  /\ pc' = "item"
  /\ submit' = NoSubmit
  /\ Step(FALSE, FALSE, TRUE)
  /\ UNCHANGED <<sizes, url, files, disk, ledger, outcome, mem, images, tasks, ended,
                 written>>

\* ------------------------------------------------------------ Batch Registrar
Slices(items) == chunks(Positions(Len(Keys(items))), MacroSize)

Settled(t) == t.st \in {"done", "failed"}

\* Promise.all has settled: every task done, or one task failed.
AllSettles(ts) ==
  \/ \A g \in DOMAIN ts : ts[g].st = "done"
  \/ \E g \in DOMAIN ts : ts[g].st = "failed"

\* Lines 451-455: every macro-group task is started and runs to its first
\* await; with nothing to write Promise.all resolves and finally saves.
BatchStart ==
  /\ pc = "item"
  /\ i = Len(images)
  /\ pc' = "batch"
  /\ tasks' = [g \in DOMAIN Slices(mem.items) |->
                 RunTask(mem.items, Keys(mem.items), Slices(mem.items)[g], 0)]
  /\ ended' = AllSettles(tasks')
  /\ disk' = IF ended' THEN FlushFinally(disk, mem) ELSE disk
  /\ Step(ended', FALSE, FALSE)
  /\ UNCHANGED <<submit, sizes, url, files, ledger, outcome, mem, images, i, written>>

PendingBatch(g) == MicroBatch(Slices(mem.items)[g], tasks[g].off)

PendingRequest(g) ==
  BatchRequest(mem.config, mem.items, Keys(mem.items), PendingBatch(g))

PendingKeys(g) ==
  {Keys(mem.items)[PendingBatch(g)[j] + 1] : j \in DOMAIN PendingBatch(g)}

\* Mutant: the task marks a copy of its own, which has none of the marks of
\* the other macro-groups, and that copy becomes the document saved.
AfterConfirmOwnCopy(g, marked) ==
  /\ mem' = [mem EXCEPT !.items =
               [k \in DOMAIN marked |->
                  IF \E j \in DOMAIN Slices(marked)[g] :
                       Keys(marked)[Slices(marked)[g][j] + 1] = k
                  THEN marked[k]
                  ELSE [marked[k] EXCEPT !.onChain = FALSE]]]
  /\ tasks' = [tasks EXCEPT ![g] =
                 RunTask(marked, Keys(marked), Slices(marked)[g],
                         tasks[g].off + MicroSize)]

\* The task's continuation after a confirmed write: mark, then (after the
\* save) go on to the next await of this task.
AfterConfirm(g, marked) ==
  /\ mem' = [mem EXCEPT !.items = marked]
  /\ tasks' = [tasks EXCEPT ![g] =
                 RunTask(marked, Keys(marked), Slices(marked)[g],
                         tasks[g].off + MicroSize)]

\* addConfigLines of macro-group g resolved (lines 489-498); when this was
\* the last task Promise.all resolves and finally saves.
BatchConfirm(g) ==
  /\ pc = "batch"
  /\ tasks[g].st = "pending"
  /\ Accepts(ledger, PendingRequest(g))
  /\ ledger' = WriteLines(ledger, PendingRequest(g))
  /\ written' = [k \in Idx |->
                   IF k \in PendingKeys(g)
                   THEN [uri |-> mem.items[k].link, name |-> mem.items[k].name]
                   ELSE written[k]]
  /\ AfterConfirm(g, MarkOnChain(mem.items, Keys(mem.items), PendingBatch(g)))
  /\ ended' = (ended \/ AllSettles(tasks'))
  /\ disk' = IF ~ended /\ ended'
             THEN FlushFinally(FlushAfterMark(disk, mem'), mem')
             ELSE FlushAfterMark(disk, mem')
  /\ Step(TRUE, FALSE, FALSE)
  /\ UNCHANGED <<submit, sizes, url, files, pc, outcome, images, i>>

\* The task's continuation after a rejected write: the exception leaves the
\* for loop and the task's promise rejects.
\* The errors an addConfigLines call can reject with: a blockhash-expired
\* class error or any other.
Rejections == {"retryable", "fatal"}

\* The addConfigLines call is written once in the loop body, with no loop or
\* catch around it: one attempt per micro-batch and run.
WriteAttempts == 1

AfterReject(g) == tasks' = [tasks EXCEPT ![g].st = "failed"]

\* History bookkeeping of a rejected batch write: the error e that catch
\* logs (line 505) or that is lost with the task's promise.
StepRejected(saved, e) ==
  hist' = IF hist.track
          THEN [hist EXCEPT !.saved = saved, !.ok = FALSE, !.err = e]
          ELSE hist

\* addConfigLines of macro-group g rejected: Promise.all rejects with the
\* first failure, catch logs it and finally saves (lines 504-511).
BatchFail(g) ==
  /\ pc = "batch"
  /\ tasks[g].st = "pending"
  /\ AfterReject(g)
  /\ ended' = (ended \/ AllSettles(tasks'))
  /\ disk' = IF ~ended /\ ended' THEN FlushFinally(disk, mem) ELSE disk
  /\ \E e \in Rejections : StepRejected(~ended /\ ended', e)
  /\ UNCHANGED <<submit, sizes, url, files, ledger, mem, pc, outcome, images, i, written>>

\* No task is left waiting: the process exits.
Exit ==
  /\ pc = "batch"
  /\ \A g \in DOMAIN tasks : Settled(tasks[g])
  /\ Gone("exit")
  /\ EndOfRun(IF hist.ok THEN "clean" ELSE "other")
  /\ UNCHANGED <<sizes, url, files, disk, ledger, written>>

\* ------------------------------------------------------------ verify command
\* Lines 701-711: cachedContent is read (no defaults) and getAccountInfo is
\* called; with no file, or no program.config in it, the action throws first.
StartVerify ==
  /\ pc = "idle"
  /\ disk.exists
  /\ Parse(disk.text).config # NoId
  /\ mem' = Parse(disk.text)
  /\ pc' = "verify"
  /\ outcome' = "running"
  /\ hist' = hist
  /\ UNCHANGED <<submit, sizes, url, files, disk, ledger, images, i, tasks, ended, written>>

\* getAccountInfo resolved: the comparison loop, then one save (lines 712-747).
VerifyOk ==
  /\ pc = "verify"
  /\ ledger.id = mem.config
  /\ disk' = Save([mem EXCEPT !.items = VerifyItems(mem.items, ledger)])
  /\ Gone("exit")
  /\ hist' = hist
  /\ UNCHANGED <<sizes, url, files, ledger, written>>

\* getAccountInfo rejected: nothing is written.
VerifyFail ==
  /\ pc = "verify"
  /\ Gone("rejected")
  /\ hist' = hist
  /\ UNCHANGED <<sizes, url, files, disk, ledger, written>>

\* ------------------------------------------------------------ specifications
Next ==
  \/ AddFile
  \/ Kill
  \/ StartUpload
  \/ ConnectOk
  \/ ConnectFail
  \/ ItemSkip
  \/ ItemPass
  \/ ItemRegister
  \/ ItemPay
  \/ RegOk
  \/ RegFail
  \/ FeeOk
  \/ FeeFail
  \/ StoreOk
  \/ StoreFail
  \/ BatchStart
  \/ \E g \in DOMAIN tasks : BatchConfirm(g)
  \/ \E g \in DOMAIN tasks : BatchFail(g)
  \/ Exit
  \/ StartVerify
  \/ VerifyOk
  \/ VerifyFail

\* Every reachable state of the commands, under every outcome of every call.
Spec == Init /\ [][Next]_vars

\* The same behaviours with the history of runs recorded in hist.
SpecHist == InitWith(TRUE) /\ [][Next]_vars

\* ------------------------------------------------------------------ claims
\* The cache document as the next command would load it.
DiskDoc == Load(disk)

Flag(doc, k) == k \in DOMAIN doc.items /\ doc.items[k].onChain

RunFinished ==
  pc = "batch" /\ ended /\ \A g \in DOMAIN tasks : Settled(tasks[g])

\* C1: in every reachable cache state every item whose onChain flag is true
\* has a link that is present and non-empty.
C1_RegisteredHasAddress ==
  \A k \in DOMAIN DiskDoc.items :
    DiskDoc.items[k].onChain => DiskDoc.items[k].link # NoStr

\* The documents a claim about "the cache" speaks of: the file, and the
\* document in memory while a command runs.
CacheDocs == {DiskDoc} \cup (IF pc = "idle" THEN {} ELSE {mem})

PairIsTheConfirmedOne ==
  \A doc \in CacheDocs : \A k \in DOMAIN doc.items :
    doc.items[k].onChain =>
      written[k] = [uri |-> doc.items[k].link, name |-> doc.items[k].name]

RewriteClearsFlag ==
  \A k \in DOMAIN DiskDoc'.items :
    (k \notin DOMAIN DiskDoc.items \/ DiskDoc'.items[k].link # DiskDoc.items[k].link)
      => ~DiskDoc'.items[k].onChain

\* C2: for every item whose onChain flag is true, the (link, name) pair in
\* the cache is the pair carried for it by the most recent confirmed batch
\* write containing it, and a step that rewrites an item's link leaves its
\* flag false.
C2_PairOfConfirmedBatch == []PairIsTheConfirmedOne /\ [][RewriteClearsFlag]_vars

\* An item is registered with a link, and another was uploaded again after a
\* confirmed write that carried no link for it: its flag is false.
C2_Witness ==
  /\ \E k \in DOMAIN DiskDoc.items :
       DiskDoc.items[k].onChain /\ DiskDoc.items[k].link # NoStr
  /\ \E k \in DOMAIN DiskDoc.items :
       /\ written[k] # NoRecord
       /\ written[k].uri # DiskDoc.items[k].link
       /\ ~DiskDoc.items[k].onChain

\* C3: a second upload run with identical inputs, every network call
\* succeeding in both runs, sends no fee payment and no storage upload and
\* leaves the cache document as the first run left it.
C3_SecondRunIdempotent ==
  (hist.track /\ hist.mode = "clean" /\ hist.ok) =>
    /\ ~hist.paid
    /\ pc \notin {"fee", "store"}
    /\ RunFinished => DiskDoc = hist.prevDoc

\* A fee payment or a storage upload of the current item failed (the process
\* was not killed).
ItemCallFailed ==
  \/ pc = "fee" /\ pc' \notin {"fee", "store"} /\ outcome' # "killed"
  \/ pc = "store" /\ pc' # "store" /\ outcome' # "killed" /\ disk' = disk

\* C4: when the fee payment or the storage upload of an item fails, the
\* failure is caught, the loop goes on with the next item (so the later items
\* and the Batch Registrar still run) and the item's link stays absent.
C4_ItemFailureContained ==
  [][ItemCallFailed =>
       /\ outcome' = "running"
       /\ pc' = "item"
       /\ i' = i + 1
       /\ CachedLink(mem', CurIndex) = NoStr]_vars

\* The micro-batches of macro-group g that come after the one at its
\* current offset.
LaterOffsets(g) ==
  {off \in 0 .. Len(Slices(mem.items)[g]) :
     /\ off > tasks[g].off
     /\ off < Len(Slices(mem.items)[g])
     /\ off % MicroSize = 0}

\* C5: when the submission of a micro-batch fails, every later micro-batch
\* of the run with an unregistered item is still submitted: a task that
\* failed leaves no later micro-batch of its macro-group with an
\* unregistered item behind.
C5_LaterBatchesSubmitted ==
  pc = "batch" =>
    \A g \in DOMAIN tasks :
      tasks[g].st = "failed" =>
        \A off \in LaterOffsets(g) :
          ~NeedsWrite(mem.items, Keys(mem.items),
                      MicroBatch(Slices(mem.items)[g], off))

\* This step is the continuation of a confirmed batch write whose records
\* include key k.
ConfirmedWriteOf(k) ==
  /\ pc = "batch"
  /\ pc' = "batch"
  /\ \E g \in DOMAIN tasks :
       /\ tasks[g].st = "pending"
       /\ k \in PendingKeys(g)
       /\ Accepts(ledger, PendingRequest(g))
       /\ ledger' = WriteLines(ledger, PendingRequest(g))
       /\ written'[k] = [uri |-> mem.items[k].link, name |-> mem.items[k].name]
       /\ tasks'[g] # tasks[g]
       /\ tasks'[g].st # "failed"

FlagSetOnlyByConfirm ==
  \A k \in Idx :
    (\/ ~Flag(DiskDoc, k) /\ Flag(DiskDoc', k)
     \/ pc # "idle" /\ ~Flag(mem, k) /\ Flag(mem', k))
      => ConfirmedWriteOf(k)

FailedBatchUnmarked ==
  \A g \in DOMAIN tasks :
    (g \in DOMAIN tasks' /\ tasks[g].st = "pending" /\ tasks'[g].st = "failed")
      => \A k \in PendingKeys(g) :
           /\ Flag(mem', k) = Flag(mem, k)
           /\ Flag(DiskDoc', k) = Flag(DiskDoc, k)

\* C6: an item's onChain flag goes from false to true only in the step that
\* follows the confirmed success of a batch write whose records include the
\* item, and a micro-batch whose submission failed has none of its items
\* marked.
C6_MarkOnlyAfterConfirm == [][FlagSetOnlyByConfirm /\ FailedBatchUnmarked]_vars

\* A micro-batch failed with an unregistered item left unmarked, while an
\* item of a confirmed micro-batch is marked in the file.
C6_Witness ==
  /\ pc = "batch"
  /\ \E g \in DOMAIN tasks :
       tasks[g].st = "failed" /\ \E k \in PendingKeys(g) : ~Flag(mem, k)
  /\ \E k \in Idx : Flag(DiskDoc, k)

\* C7: a run killed right after a cache save and then run again to its end
\* with no network failure ends in the final state of an uninterrupted run:
\* the keys of the item set, every item with a link and on chain, and the
\* program state that was saved first.
C7_CrashSafe ==
  (hist.track /\ hist.mode = "killed" /\ hist.ok /\ RunFinished) =>
    /\ DOMAIN DiskDoc.items = Stems(files)
    /\ \A k \in DOMAIN DiskDoc.items :
         DiskDoc.items[k].link # NoStr /\ DiskDoc.items[k].onChain
    /\ hist.prevDoc.uuid # NoId =>
         DiskDoc.uuid = hist.prevDoc.uuid /\ DiskDoc.config = hist.prevDoc.config

\* A network call of the upload command is in flight.
CallInFlight ==
  \/ pc \in {"connect", "reg", "fee", "store"}
  \/ pc = "batch" /\ \E g \in DOMAIN tasks : tasks[g].st = "pending"

\* The Batch Registrar phase has ended (the finally block has run).
PhaseEnded == pc = "batch" /\ ended

\* C8: whenever the upload command has a network call in flight, and when
\* the Batch Registrar phase has ended (normally or by a submission error),
\* the cache file equals the document in memory (an absent file counting as
\* the empty document).
C8_FlushDiscipline == (CallInFlight \/ PhaseEnded) => DiskDoc = mem

\* One task failed and ended the phase while another task, after a marked
\* micro-batch, still has a write in flight.
C8_Witness ==
  /\ PhaseEnded
  /\ \E g \in DOMAIN tasks : tasks[g].st = "failed"
  /\ \E g \in DOMAIN tasks : tasks[g].st = "pending"
  /\ \E k \in Idx : Flag(mem, k)

BothOrNeither == (DiskDoc.uuid = NoId) <=> (DiskDoc.config = NoId)

RegisteredOnce ==
  DiskDoc.uuid # NoId =>
    /\ DiskDoc'.uuid = DiskDoc.uuid
    /\ DiskDoc'.config = DiskDoc.config
    /\ ~(pc # "reg" /\ pc' = "reg")

\* C9: uuid and config are both absent or both present in every saved cache
\* state; once present, no later step calls the registration again and
\* their values never change.
C9_OneTimeRegistration == []BothOrNeither /\ [][RegisteredOnce]_vars

\* A later run stands at its first item with the uuid already in the cache.
C9_Witness ==
  /\ pc = "item"
  /\ i = 0
  /\ Len(images) > 0
  /\ DiskDoc.uuid # NoId
  /\ mem.uuid = DiskDoc.uuid

\* The registration call failed (the process was not killed): the run is
\* still running and goes on with the fee payment of the item, or with the
\* next item when the item has a link.
RegistrationFailureContained ==
  (pc = "reg" /\ pc' # "reg" /\ outcome' # "killed" /\ mem'.uuid = NoId) =>
    /\ outcome' = "running"
    /\ IF CachedLink(mem, CurIndex) = NoStr
       THEN pc' = "fee" /\ i' = i
       ELSE pc' = "item" /\ i' = i + 1

\* A run with no uuid in the cache calls the registration at its first item.
RegistrationRetried ==
  (/\ pc = "item"
   /\ i = 0
   /\ Len(images) > 0
   /\ mem.uuid = NoId
   /\ (pc' # pc \/ i' # i)
   /\ outcome' # "killed") => pc' = "reg"

\* C10: a failed registration call does not abort the run, whose items are
\* still uploaded; every later run with no uuid in the cache attempts the
\* registration again, also when every item already has a link.
C10_RegistrationRetried ==
  [][RegistrationFailureContained /\ RegistrationRetried]_vars

\* The registration is called in a run in which every item of the directory
\* already has a link in the cache.
C10_Witness ==
  /\ pc = "reg"
  /\ files # <<>>
  /\ \A k \in Stems(files) : k \in DOMAIN mem.items /\ mem.items[k].link # NoStr

\* C11: no batch write is issued while the program state has no uuid or no
\* config: whenever an addConfigLines call is in flight the cache document
\* of the run holds both.
C11_NoWriteWithoutRegistration ==
  pc = "batch" =>
    \A g \in DOMAIN tasks :
      tasks[g].st = "pending" => mem.uuid # NoId /\ mem.config # NoId

\* ------------------------------------------------- the verifier on its inputs
\* The verify command reads whatever cache file and config account it is
\* pointed at: the cache documents and accounts it is checked on.
VerifyLinks == {NoStr} \cup {LinkOf(t) : t \in TxIds}

VerifyDocs ==
  {[uuid |-> 1, config |-> 1, items |-> f] :
     f \in UNION {{g \in [S -> [link : VerifyLinks,
                                 name : {NameOf(k) : k \in Idx},
                                 onChain : BOOLEAN]] :
                     \A k \in S : g[k].name = NameOf(k)} : S \in SUBSET Idx}}

\* Slot j of the account holds no record, or a record with the name of item
\* j or of the item after it, and no uri, the uri of a storage upload, or
\* the uri of another one.
VerifyLines(j) ==
  [uri : VerifyLinks \cup {LinkOf(<<8>>)},
   name : {NoStr, NameOf(j), NameOf((j + 1) % MaxItems)}]

VerifyAccounts ==
  {[id |-> 1, cap |-> MaxItems, lines |-> l] :
     l \in {m \in [Idx -> UNION {VerifyLines(j) : j \in Idx}] :
              \A j \in Idx : m[j] \in VerifyLines(j)}}

InitVerify ==
  /\ disk \in {Save(d) : d \in VerifyDocs}
  /\ ledger \in VerifyAccounts
  /\ files = <<>>
  /\ sizes = [micro |-> 1, macro |-> 2]
  /\ url = DEFAULT_CLUSTER_URL
  /\ pc = "idle"
  /\ outcome = "none"
  /\ mem = EmptyDoc
  /\ images = <<>>
  /\ i = 0
  /\ tasks = <<>>
  /\ ended = FALSE
  /\ written = [k \in Idx |-> NoRecord]
  /\ hist = NoHist(FALSE)
  /\ submit = NoSubmit

NextVerify ==
  \/ StartVerify
  \/ VerifyOk
  \/ VerifyFail
  \/ Kill

\* The verify command on every cache document and account of the bounds.
SpecVerify == InitVerify /\ [][NextVerify]_vars

\* The position of key k in Object.keys(items), from 0.
PosOf(items, k) == (CHOOSE j \in DOMAIN Keys(items) : Keys(items)[j] = k) - 1

\* The comparison loop of the verifier has run and saved.
VerifierRan == pc = "verify" /\ outcome' = "exit"

\* The decoded name and uri contain the cached name and link; a cached link
\* that is absent is matched only by a record that holds no uri.
FieldsAgree(line, item) ==
  /\ Contains(line.name, item.name)
  /\ IF item.link = NoStr THEN line.uri = NoStr ELSE Contains(line.uri, item.link)

\* C12: for every cached item, the verifier leaves onChain unchanged when the
\* name and uri decoded from the item's record on the ledger contain the
\* cached name and link, and clears it when either does not match, also when
\* the cached link is absent while the ledger holds a uri and when the
\* record is empty.
C12_VerifierDecision ==
  [][VerifierRan =>
       \A k \in DOMAIN mem.items :
         Flag(DiskDoc', k) =
           IF FieldsAgree(DecodeLine(ledger, PosOf(mem.items, k)), mem.items[k])
           THEN Flag(mem, k) ELSE FALSE]_vars

\* A step of a verifier run: from its start to its last step.
VerifierStep == pc = "verify" \/ pc' = "verify"

VerifierFrame ==
  /\ ledger' = ledger
  /\ DiskDoc'.uuid = DiskDoc.uuid
  /\ DiskDoc'.config = DiskDoc.config
  /\ DOMAIN DiskDoc'.items = DOMAIN DiskDoc.items
  /\ \A k \in DOMAIN DiskDoc.items :
       /\ DiskDoc'.items[k].link = DiskDoc.items[k].link
       /\ DiskDoc'.items[k].name = DiskDoc.items[k].name
       /\ DiskDoc'.items[k].onChain => DiskDoc.items[k].onChain

\* C13: a verifier run leaves the ledger as it is, and in the cache it
\* changes nothing but onChain flags, which it only moves from true to false:
\* the program state, the set of keys and every link and name are unchanged.
C13_VerifierFrame == [][VerifierStep => VerifierFrame]_vars

\* The verifier has cleared a flag: an item with a link is not on chain in
\* the file although the last confirmed write carried its very pair (an
\* item with a link is never uploaded again, so no upload cleared it).
C13_Witness ==
  /\ pc = "idle"
  /\ outcome = "exit"
  /\ \E k \in DOMAIN DiskDoc.items :
       /\ DiskDoc.items[k].link # NoStr
       /\ ~DiskDoc.items[k].onChain
       /\ written[k] = [uri |-> DiskDoc.items[k].link, name |-> DiskDoc.items[k].name]

\* ------------------------------------------------- the ItemSet on its inputs
\* The file lists the upload action can be given: the json and png files of
\* the stems, in any order and with repeated entries.
ListedNames == {File(k, e, TRUE) : k \in Idx, e \in {"json", "png"}}

Listings == UNION {[1 .. n -> ListedNames] : n \in 0 .. MaxListing}

\* The cache files it can find: none, or one with items under any set of keys.
ItemSetCaches ==
  {NoFile} \cup
  {Save([EmptyDoc EXCEPT !.items =
           [k \in S |-> [link |-> NoStr, name |-> NameOf(k), onChain |-> FALSE]]]) :
     S \in SUBSET Idx}

InitItemSet ==
  /\ files \in Listings
  /\ disk \in ItemSetCaches
  /\ sizes = [micro |-> 1, macro |-> 2]
  /\ url = DEFAULT_CLUSTER_URL
  /\ ledger = NoAccount
  /\ pc = "idle"
  /\ outcome = "none"
  /\ mem = EmptyDoc
  /\ images = <<>>
  /\ i = 0
  /\ tasks = <<>>
  /\ ended = FALSE
  /\ written = [k \in Idx |-> NoRecord]
  /\ hist = NoHist(FALSE)
  /\ submit = NoSubmit

NextItemSet ==
  \/ StartUpload
  \/ ConnectFail
  \/ Kill

\* The setup of the upload command on every file list and cache of the bounds.
SpecItemSet == InitItemSet /\ [][NextItemSet]_vars

\* The images among the listed files, and the position at which a file is
\* listed first.
ListedImages == SelectSeq(files, LAMBDA f : f.ext = "png")

FirstListed(f) == CHOOSE j \in DOMAIN files : files[j] = f /\ \A a \in 1 .. (j - 1) : files[a] # f

ListedPart == SelectSeq(images, LAMBDA f : f.indir)

CachePart == SelectSeq(images, LAMBDA f : ~f.indir)

\* C14: the ItemSet holds each index at most once; it keeps the listed
\* images in the order of their first occurrence in the file list, and after
\* them holds every index that is in the cache but not among the listed
\* images (so the per-item loop attempts at most one upload per index).
C14_ItemSetDeduplicated ==
  pc = "connect" =>
    /\ \A a, b \in DOMAIN images :
         IndexOf(images[a]) = IndexOf(images[b]) => a = b
    /\ images = ListedPart \o CachePart
    /\ Range(ListedPart) = Range(ListedImages)
    /\ \A a, b \in DOMAIN ListedPart :
         a < b => FirstListed(ListedPart[a]) < FirstListed(ListedPart[b])
    /\ {IndexOf(f) : f \in Range(CachePart)} =
         DOMAIN mem.items \ {IndexOf(f) : f \in Range(ListedImages)}

\* An image is listed twice, another image is listed after its first
\* occurrence, and an index comes from the cache alone.
C14_Witness ==
  /\ pc = "connect"
  /\ \E a, b \in DOMAIN ListedImages : a < b /\ ListedImages[a] = ListedImages[b]
  /\ Len(ListedPart) = 2
  /\ CachePart # <<>>

\* -------------------------------------------- the Batch Registrar on a cache
\* The batch sizes of cli.ts (lines 454, 459, 461).
RealSizes == [micro |-> 10, macro |-> 1000]

RegistrarSizes ==
  BatchSizes \cup {[micro |-> 2, macro |-> 4], [micro |-> 3, macro |-> 6], RealSizes}

\* The caches the Batch Registrar is started on: a registered program, the
\* items 0 .. n-1 all with a link, any of them on chain already.
RegistrarDocs ==
  {[uuid |-> 1, config |-> 1,
    items |-> [k \in 0 .. (n - 1) |->
                 [link |-> LinkOf(<<7>>), name |-> NameOf(k), onChain |-> k \in on]]] :
     n \in 0 .. MaxCached, on \in SUBSET (0 .. (MaxCached - 1))}

\* The config account of such a cache: the records of the items on chain.
AccountOf(doc) ==
  [id |-> doc.config, cap |-> Len(Keys(doc.items)),
   lines |-> [k \in DOMAIN doc.items |->
                IF doc.items[k].onChain
                THEN [uri |-> doc.items[k].link, name |-> doc.items[k].name]
                ELSE EmptyLine]]

\* An upload run whose directory is empty and whose per-item loop has
\* passed every item of the cache (each has a link, line 347).
InitRegistrar ==
  /\ sizes \in RegistrarSizes
  /\ url = DEFAULT_CLUSTER_URL
  /\ mem \in RegistrarDocs
  /\ disk = Save(mem)
  /\ ledger = AccountOf(mem)
  /\ files = <<>>
  /\ images = Images(files, Keys(mem.items))
  /\ i = Len(images)
  /\ pc = "item"
  /\ outcome = "running"
  /\ tasks = <<>>
  /\ ended = FALSE
  /\ written = [k \in Idx |-> NoRecord]
  /\ hist = NoHist(FALSE)
  /\ submit = NoSubmit

NextRegistrar ==
  \/ BatchStart
  \/ \E g \in DOMAIN tasks : BatchConfirm(g)
  \/ \E g \in DOMAIN tasks : BatchFail(g)
  \/ Exit
  \/ Kill

\* The Batch Registrar on every cache and batch size of the bounds.
SpecRegistrar == InitRegistrar /\ [][NextRegistrar]_vars

Ceil(a, b) == (a + b - 1) \div b

\* The values of the loop variable offset for a macro-group slice.
Offsets(slice) == {off \in 0 .. (Len(slice) - 1) : off % MicroSize = 0}

\* The macro-groups have the full size but for the last one, and so have
\* the micro-batches of each macro-group.
SizesAsClaimed(S, n) ==
  /\ Len(S) = Ceil(n, MacroSize)
  /\ \A g \in DOMAIN S :
       /\ Len(S[g]) \in 1 .. MacroSize
       /\ g < Len(S) => Len(S[g]) = MacroSize
       /\ Cardinality(Offsets(S[g])) = Ceil(Len(S[g]), MicroSize)
       /\ \A off \in Offsets(S[g]) :
            /\ Len(MicroBatch(S[g], off)) \in 1 .. MicroSize
            /\ off + MicroSize < Len(S[g]) => Len(MicroBatch(S[g], off)) = MicroSize

\* The micro-batches, taken by macro-group and offset, hold the positions
\* 0 .. n-1 in ascending order, each once.
PartitionAsClaimed(S, n) ==
  /\ \A p \in 0 .. (n - 1) :
       Cardinality({<<g, off, j>> \in
                      UNION {{<<g, off, j>> : off \in Offsets(S[g]),
                                              j \in 1 .. MicroSize} : g \in DOMAIN S} :
                      /\ j <= Len(MicroBatch(S[g], off))
                      /\ MicroBatch(S[g], off)[j] = p}) = 1
  /\ \A g \in DOMAIN S : \A off \in Offsets(S[g]) :
       \A j \in DOMAIN MicroBatch(S[g], off) :
         MicroBatch(S[g], off)[j] = (g - 1) * MacroSize + off + (j - 1)

BoundariesAsClaimed(n) ==
  LET S == chunks(Positions(n), MacroSize)
  IN SizesAsClaimed(S, n) /\ PartitionAsClaimed(S, n)

\* The example of the claim, with the batch sizes of cli.ts: 2001 items give
\* macro-groups of 1000, 1000 and 1, and 100 micro-batches in the first.
ExampleAsClaimed ==
  LET S == chunks(Positions(2001), MacroSize)
  IN /\ Len(S) = 3
     /\ Len(S[1]) = 1000 /\ Len(S[2]) = 1000 /\ Len(S[3]) = 1
     /\ Cardinality(Offsets(S[1])) = 100
     /\ \A off \in Offsets(S[1]) : Len(MicroBatch(S[1], off)) = 10
     /\ SizesAsClaimed(S, 2001)

\* C15: for a cache of n items the Batch Registrar forms ceil(n/macro)
\* macro-groups, all of the macro size but for the last, and walks each
\* macro-group of size m in ceil(m/micro) micro-batches, all of the micro
\* size but for the last; the micro-batches hold the positions 0 .. n-1 in
\* ascending order, none missing or repeated, and every batch write is for
\* one of them.  With the sizes 10 and 1000, 2001 items give groups of 1000,
\* 1000, 1 and 100 micro-batches in the first.
C15_BatchBoundaries ==
  /\ pc = "batch" =>
       /\ DOMAIN tasks = DOMAIN Slices(mem.items)
       /\ Slices(mem.items) = chunks(Positions(Cardinality(DOMAIN mem.items)), MacroSize)
       /\ BoundariesAsClaimed(Cardinality(DOMAIN mem.items))
       /\ \A g \in DOMAIN tasks :
            tasks[g].st = "pending" => tasks[g].off \in Offsets(Slices(mem.items)[g])
  /\ (pc = "batch" /\ sizes = RealSizes /\ ended) => ExampleAsClaimed

\* A cache with a last macro-group smaller than the others; that group has
\* a write in flight for its last micro-batch, smaller than the one before.
C15_Witness ==
  /\ pc = "batch"
  /\ Len(tasks) >= 2
  /\ Len(Slices(mem.items)[Len(tasks)]) < MacroSize
  /\ tasks[Len(tasks)].st = "pending"
  /\ tasks[Len(tasks)].off > 0
  /\ Len(PendingBatch(Len(tasks))) < MicroSize

\* ------------------------------------------- the fee payment's submit call
\* The network answers the attempt in flight.
SubmitAnswer ==
  /\ pc = "fee"
  /\ submit.result = "sent"
  /\ \E a \in Answers :
       /\ submit' = [submit EXCEPT !.result = a]
       /\ Step(FALSE, FALSE, a # "ok")
  /\ UNCHANGED <<sizes, url, files, disk, ledger, pc, outcome, mem, images, i, tasks,
                 ended, written>>

\* A blockhash-expired class rejection with attempts left: the block
\* reference is refreshed and the transaction sent again.
SubmitResend ==
  /\ pc = "fee"
  /\ CanResend(submit)
  /\ submit' = [attempt |-> submit.attempt + 1, result |-> "sent"]
  /\ Step(FALSE, FALSE, TRUE)
  /\ UNCHANGED <<sizes, url, files, disk, ledger, pc, outcome, mem, images, i, tasks,
                 ended, written>>

\* The attempt is confirmed: submit returns the transaction id.
SubmitReturn == submit.result = "ok" /\ FeeOk

\* submit raises SubmissionError; at this call site nothing catches it.
SubmitRaise == MustRaise(submit) /\ FeeFail

NextSubmit ==
  \/ Kill
  \/ StartUpload
  \/ ConnectOk
  \/ ConnectFail
  \/ ItemSkip
  \/ ItemPass
  \/ ItemRegister
  \/ ItemPay
  \/ RegOk
  \/ RegFail
  \/ SubmitAnswer
  \/ SubmitResend
  \/ SubmitReturn
  \/ SubmitRaise
  \/ StoreOk
  \/ StoreFail
  \/ BatchStart
  \/ \E g \in DOMAIN tasks : BatchConfirm(g)
  \/ \E g \in DOMAIN tasks : BatchFail(g)
  \/ Exit

\* The upload command with the attempts of the fee payment's submit call.
SpecSubmit == Init /\ [][NextSubmit]_vars

\* A step of the submit call that is not the death of the process.
SubmitterActs == pc = "fee" /\ submit' # submit /\ outcome' # "killed"

RetriedWhileAttemptsLeft ==
  (SubmitterActs /\ submit.result = "retryable" /\ submit.attempt < MaxAttempts) =>
    /\ pc' = "fee"
    /\ outcome' = "running"
    /\ submit' = [attempt |-> submit.attempt + 1, result |-> "sent"]

ReturnsOnSuccess ==
  (pc = "fee" /\ submit.result = "ok" /\ pc' # "fee" /\ outcome' # "killed") =>
    pc' = "store" /\ outcome' = "running"

RaisesAtCeiling ==
  (SubmitterActs /\ submit.result = "retryable" /\ submit.attempt >= MaxAttempts) =>
    outcome' = "rejected"

\* C16: a submit call whose attempt fails with a retryable error is sent
\* again while attempts are left; when an attempt within the ceiling is
\* confirmed the call returns without raising; when the attempt at the
\* ceiling fails retryably the call raises; no attempt is made beyond the
\* ceiling, which is at least 3.
C16_BoundedRetry ==
  /\ [](MaxAttempts >= 3 /\ submit.attempt <= MaxAttempts)
  /\ [][RetriedWhileAttemptsLeft /\ ReturnsOnSuccess /\ RaisesAtCeiling]_vars

\* The call has returned on its third attempt, after two retryable failures.
C16_Witness ==
  /\ pc = "store"
  /\ submit = [attempt |-> 3, result |-> "ok"]

\* The response lists the metadata under the filename it was uploaded with.
ListsUploadedMetadata(resp) == Listed(resp, MetadataFile) # {}

\* The item record the upload step stores for a response.
StoredFor(resp) == RecordUpload(mem.items, CurIndex, ExtractLink(resp))[CurIndex]

UploadStepStores ==
  (pc = "store" /\ pc' = "item" /\ disk' # disk) =>
    \E resp \in Responses : DiskDoc'.items[CurIndex] = StoredFor(resp)

\* C17: whenever the storage upload succeeds and its response lists a record
\* for the metadata under the filename the metadata was uploaded with, the
\* link stored for the item is present and is the storage-host URL of that
\* record's transactionId, not of the image's record.
C17_LinkOfMetadataRecord ==
  /\ [](pc = "store" =>
          \A resp \in Responses :
            ListsUploadedMetadata(resp) =>
              /\ StoredFor(resp).link # NoStr
              /\ StoredFor(resp).link = LinkOf(Find(resp, MetadataFile).transactionId))
  /\ [][UploadStepStores]_vars

\* Every item of the document has a link and a name and is on chain.
AllRegistered(doc) ==
  \A k \in DOMAIN doc.items :
    /\ doc.items[k].link # NoStr
    /\ doc.items[k].name # NoStr
    /\ doc.items[k].onChain

\* The verifier's comparison loop runs on the cache an upload run left
\* behind, a run that ended with no call failed and every item registered.
VerifiesAfterConfirmedRun ==
  /\ hist.track
  /\ hist.prev = "clean"
  /\ hist.prevDoc = mem
  /\ AllRegistered(mem)
  /\ VerifierRan

\* C18: the verifier reads the record of each item from the slot the Batch
\* Registrar stored it in: run directly after a fully confirmed Batch
\* Registrar run on a cache whose items all have a link and a name, also one
\* whose keys are not 0 .. n-1, it clears no onChain flag.
C18_SlotAgreement ==
  [][VerifiesAfterConfirmedRun => \A k \in DOMAIN mem.items : Flag(DiskDoc', k)]_vars

\* The config account holds a record for item k: a batch write with the item
\* was confirmed (the registrar's input documents have the keys 0..n-1, so
\* that slot k is the slot of key k).
Confirmed(k) == k \in DOMAIN ledger.lines /\ ledger.lines[k] # EmptyLine

ConfirmedAreSaved ==
  pc = "batch" => \A k \in DOMAIN mem.items : Confirmed(k) => Flag(DiskDoc, k)

SavedMarksKept ==
  (pc = "batch" /\ pc' = "batch") => \A k \in DOMAIN mem.items : Flag(DiskDoc, k) => Flag(DiskDoc', k)

\* The step in which the write of task g is confirmed saves the marks of
\* every item of its micro-batch.
ConfirmSavesMarks ==
  \A g \in DOMAIN tasks :
    (pc = "batch" /\ pc' = "batch" /\ tasks[g].st = "pending" /\ tasks'[g] # tasks[g]
       /\ tasks'[g].st # "failed")
      => \A k \in PendingKeys(g) : Flag(DiskDoc', k)

\* C19: under every interleaving of the macro-group tasks, the file has the
\* onChain flag of every item of every confirmed micro-batch (so it has when
\* all tasks have finished), and no save of a task or of the finally block
\* writes a document that lacks a mark already saved.
C19_NoLostUpdate ==
  []ConfirmedAreSaved /\ [][SavedMarksKept /\ ConfirmSavesMarks]_vars

\* Two macro-group tasks have each had a micro-batch confirmed in this run
\* and saved its marks, and each has a further write in flight.
C19_Witness ==
  /\ pc = "batch"
  /\ Len(tasks) >= 2
  /\ tasks[1].st = "pending" /\ tasks[2].st = "pending"
  /\ written[0] # NoRecord /\ written[2] # NoRecord
  /\ MacroSize = 2
  /\ Flag(DiskDoc, 0) /\ Flag(DiskDoc, 2)

\* The keys of the micro-batch of macro-group g at offset o.
BatchKeys(g, o) ==
  LET indexes == MicroBatch(Slices(mem.items)[g], o)
  IN {Keys(mem.items)[indexes[j] + 1] : j \in DOMAIN indexes}

\* A write in flight is for a micro-batch with an item not on chain, and a
\* task has gone past a micro-batch only if all its items are on chain
\* (skipped as such, or written and marked).
WrittenIffNotOnChain ==
  pc = "batch" =>
    \A g \in DOMAIN tasks :
      /\ tasks[g].st = "pending" => \E k \in PendingKeys(g) : ~Flag(mem, k)
      /\ \A o \in Offsets(Slices(mem.items)[g]) :
           o < tasks[g].off => \A k \in BatchKeys(g, o) : Flag(mem, k)
      /\ tasks[g].st = "done" => tasks[g].off >= Len(Slices(mem.items)[g])

\* The start of the tasks, which passes the micro-batches wholly on chain up
\* to the first write, changes neither the document nor the account.
SkipChangesNothing ==
  (pc = "item" /\ pc' = "batch") => mem' = mem /\ ledger' = ledger

\* The confirmed write of task g stores the pair of every item of its
\* micro-batch, those already on chain included, in the item's slot; no
\* other item and no other slot changes, whatever the task passes next.
WriteCarriesEveryItem ==
  \A g \in DOMAIN tasks :
    (pc = "batch" /\ pc' = "batch" /\ tasks[g].st = "pending" /\ tasks'[g] # tasks[g]
       /\ tasks'[g].st # "failed")
      => /\ Len(PendingRequest(g).records) = Cardinality(PendingKeys(g))
         /\ \A k \in PendingKeys(g) :
              ledger'.lines[k] = [uri |-> mem.items[k].link, name |-> mem.items[k].name]
         /\ \A k \in DOMAIN mem.items \ PendingKeys(g) :
              mem'.items[k] = mem.items[k] /\ ledger'.lines[k] = ledger.lines[k]

\* C20: a micro-batch is sent to the ledger if and only if one of its items
\* is not onChain; a micro-batch wholly on chain causes no ledger call and no
\* change of the cache; a micro-batch sent carries the (link, name) pair of
\* every one of its items, those already on chain included.
C20_SkipRule ==
  []WrittenIffNotOnChain /\ [][SkipChangesNothing /\ WriteCarriesEveryItem]_vars

\* The first task has passed a micro-batch that was wholly on chain and has
\* a write in flight for the next one, which has an item on chain and an
\* item not on chain.
C20_Witness ==
  /\ pc = "batch"
  /\ MicroSize = 2
  /\ Len(tasks) >= 1
  /\ tasks[1] = [off |-> 2, st |-> "pending"]
  /\ written[0] = NoRecord /\ written[1] = NoRecord
  /\ Flag(mem, 0) /\ Flag(mem, 1)
  /\ \E k \in PendingKeys(1) : Flag(mem, k)
  /\ \E k \in PendingKeys(1) : ~Flag(mem, k)

\* The write of task g is rejected in this step with a blockhash-expired
\* class error.
RejectedRetryable(g) ==
  /\ pc = "batch" /\ pc' = "batch"
  /\ tasks[g].st = "pending"
  /\ tasks'[g].st = "failed"
  /\ hist'.err = "retryable"

\* C21: a micro-batch whose write is rejected with a retryable error is sent
\* again in the same run up to the retry ceiling: its task fails with such
\* an error, leaving the micro-batch unmarked, only when the attempts made
\* for the micro-batch have reached the ceiling.
C21_BatchWriteResent ==
  [][\A g \in DOMAIN tasks :
       RejectedRetryable(g) => WriteAttempts >= MaxAttempts]_vars

\* C22: in every upload run, the first included, the write a task has in
\* flight for the config account of the run addresses only slots below the
\* capacity (maxNumberOfLines) the account was created with.
C22_WithinCapacity ==
  pc = "batch" =>
    \A g \in DOMAIN tasks :
      (tasks[g].st = "pending" /\ ledger.id # NoId /\ ledger.id = mem.config)
        => PendingRequest(g).start + Len(PendingRequest(g).records) <= ledger.cap

\* ------------------------------------------------------------ environment tag
\* The case clauses of switch (url), in order; none has a break and there is
\* no default clause.
EnvCases ==
  <<[label |-> MAINNET_CLUSTER_URL, env |-> "mainnet"],
    [label |-> TESTNET_CLUSTER_URL, env |-> "testnet"],
    [label |-> DEVNET_CLUSTER_URL, env |-> "devnet"]>>

\* `let env: string` with no initialiser; FormData sends it as this text.
EnvUnset == "undefined"

\* The statements of the clauses j, j + 1, ... run one after the other.
RECURSIVE RunClauses(_, _)
RunClauses(j, env) ==
  IF j > Len(EnvCases) THEN env ELSE RunClauses(j + 1, EnvCases[j].env)

\* switch (url): control enters at the first clause whose label is url and
\* runs to the end of the switch.
EnvOf(u) ==
  LET entries == {j \in DOMAIN EnvCases : EnvCases[j].label = u}
  IN IF entries = {} THEN EnvUnset
     ELSE RunClauses(CHOOSE j \in entries : \A k \in entries : j <= k, EnvUnset)

\* The form data of the storage upload request in flight (lines 411-415).
UploadRequest ==
  [env |-> EnvOf(url), files |-> <<ImageFile, MetadataFile>>]

\* Runs with every url option.
InitEnv == InitRun(FALSE, Urls)

SpecEnv == InitEnv /\ [][Next]_vars

\* C23: the env tag of every storage upload request is the one of the
\* cluster url of the run: mainnet, testnet or devnet for the mainnet,
\* testnet or devnet url.
C23_EnvOfCluster ==
  pc = "store" =>
    /\ url = MAINNET_CLUSTER_URL => UploadRequest.env = "mainnet"
    /\ url = TESTNET_CLUSTER_URL => UploadRequest.env = "testnet"
    /\ url = DEVNET_CLUSTER_URL => UploadRequest.env = "devnet"

====
